---- MODULE Spec2Model ----
(***************************************************************************)
(* Model of the lazyservice / lazyapp supervisor.                          *)
(*                                                                         *)
(* The supervisor (lazyApp / manager) owns a context reference a.ctx, a    *)
(* slice of services and runs every service in an errgroup task.           *)
(*                                                                         *)
(* A context is modelled as the chain of its nodes, root first: the parent *)
(* of a node is the prefix before it, so deriving a context never changes  *)
(* an existing one.  The nil context is the empty chain.                   *)
(* The context operations (AddValue, Value, AppGet, AppSet, the root made   *)
(* by Run) are those of lazyApp; the orchestration of Run is the same in    *)
(* lazyApp.Run and manager.Run.                                             *)
(* An error is modelled as its Unwrap chain, outermost first; the nil      *)
(* error is the empty chain.                                               *)
(***************************************************************************)
EXTENDS Integers, Sequences, FiniteSets, TLC

\* ------------------------------------------------------------------ bounds
MaxServices == 2      \* AddService calls explored
MaxBindings == 1      \* AddValue / AppSet calls explored
MaxLate == 1          \* AddService calls explored once Run has begun
MaxRuns == 2          \* calls of Run explored

\* ------------------------------------------------------------------ errors
NilErr == <<>>
Canceled == <<"Canceled">>
DeadlineExceeded == <<"DeadlineExceeded">>
WrappedCanceled == <<"wrap", "Canceled">>
E1 == <<"E1">>
E2 == <<"E2">>

\* errors.Is(err, target) for a sentinel target: some error of the Unwrap
\* chain is the target.
ErrorsIs(err, target) == \E k \in 1..Len(err) : err[k] = target

\* ------------------------------------------------------------------ values
LoggerT == "Logger"
T1 == "T1"
TypeTokens == {LoggerT, T1}
NoService == "-"

MkVal(t, b, a, s) == [type |-> t, base |-> b, app |-> a, service |-> s]
\* *new(T): the zero value of T (a nil *slog.Logger, an empty testStruct)
Zero(t) == MkVal(t, "zero", FALSE, NoService)
\* the untyped nil that Value returns for a key that is not bound
NoValue == MkVal("nil", "zero", FALSE, NoService)
\* the outcome of a call that dereferences a nil context
Panic == MkVal("panic", "panic", FALSE, NoService)

UserLogger == MkVal(LoggerT, "user", FALSE, NoService)
DefaultLogger == MkVal(LoggerT, "default", FALSE, NoService)
UserValue == MkVal(T1, "v1", FALSE, NoService)
UserValues == {UserLogger, UserValue}

\* logger.With("app", name, "version", version)
WithApp(l) == [l EXCEPT !.app = TRUE]
\* logger.With("service", name)
WithService(l, name) == [l EXCEPT !.service = name]

\* ---------------------------------------------------------------- contexts
NilCtx == <<>>
BaseNode(kind) == [kind |-> kind, key |-> "-", val |-> NoValue]
ValueNode(k, v) == [kind |-> "value", key |-> k, val |-> v]

\* context.WithValue(parent, key, val)
WithValue(parent, k, v) == Append(parent, ValueNode(k, v))

RECURSIVE CtxValueFirst(_, _)
CtxValueFirst(c, k) ==
    IF Len(c) = 0 THEN NoValue
    ELSE IF c[1].kind = "value" /\ c[1].key = k THEN c[1].val
    ELSE CtxValueFirst(Tail(c), k)

RECURSIVE CtxValue(_, _)
\* ctx.Value(key) of a non-nil context: the nearest node binding key,
\* searching from the context towards the root.
CtxValue(c, k) ==
    IF Len(c) = 0 THEN NoValue
    ELSE IF c[Len(c)].kind = "value" /\ c[Len(c)].key = k THEN c[Len(c)].val
    ELSE CtxValue(SubSeq(c, 1, Len(c) - 1), k)

\* lazyApp.Value: a.ctx.Value(key); a nil a.ctx is dereferenced
AppValue(c, k) == IF c = NilCtx THEN Panic ELSE CtxValue(c, k)

\* AppGet[T](app)
AppGet(c, t) ==
    LET v == AppValue(c, t) IN
    IF v = Panic THEN Panic
    ELSE IF v.type = t THEN v
    ELSE Zero(t)

\* lazyApp.AddValue
AddValueCtx(c, k, v) ==
    WithValue(IF c = NilCtx THEN <<BaseNode("background")>> ELSE c, k, v)

\* ---------------------------------------------------------------- services
Names == {"a", "b"}
\* what a service's Run does: return at once, or block until its context is
\* done, or never return; and what it returns.
Immediate == {NilErr, E1, E2, WrappedCanceled}
Behaviours ==
    [wait : {"no"}, ret : Immediate]
        \cup [wait : {"done"}, ret : {NilErr, <<"cause">>}]
        \cup [wait : {"never"}, ret : {NilErr}]
ReturnNil == [wait |-> "no", ret |-> NilErr]
\* the services registered: every behaviour under one name, and a second
\* name (equal or not to the first) for a service that returns nil
Services == [name : {"a"}, run : Behaviours] \cup [name : Names, run : {ReturnNil}]

VARIABLES
    actx,         \* a.ctx
    services,     \* a.services
    logger,       \* a.logger
    rootErr,      \* Err() of the root of a.ctx (NilErr while not done)
    interrupted,  \* an interrupt signal was delivered while Run was in progress
    runPc,        \* position of Run
    snap,         \* the slice Run ranges over
    spawned,      \* number of grp.Go calls made
    tasks,        \* one record per spawned task
    grpErr,       \* Err() of grpCtx (NilErr while not done)
    gErr,         \* errgroup's g.err
    runResult,    \* what Run returned
    firstFail,    \* history: the first task that gave the errgroup an error
    failLogged,   \* history: tasks that logged l.ErrorContext
    lastGet,      \* what the caller's last AppGet returned (reset by Run)
    runs          \* history: the calls of Run made so far

vars == <<actx, services, logger, rootErr, interrupted, runPc, snap, spawned,
          tasks, grpErr, gErr, runResult, firstFail, failLogged, lastGet,
          runs>>

\* the caller has made no AppGet
NoGet == [token |-> "-", val |-> NoValue]

Task(i) == tasks[i]
Spawned(i) == i \in 1..Len(tasks)
\* ctx.Done() is closed
RootDone == rootErr # NilErr
GrpDone == grpErr # NilErr
\* the program has not crashed
Alive == lastGet.val # Panic

\* ------------------------------------------------------------ construction
\* New(): no context.  NewWithContext(ctx): ctx as the tests build it,
\* context.WithTimeout(context.Background(), time.Second).
Init ==
    /\ actx \in {NilCtx, <<BaseNode("deadline")>>}
    /\ services = <<>>
    /\ logger = Zero(LoggerT)
    /\ rootErr = NilErr
    /\ interrupted = FALSE
    /\ runPc = "created"
    /\ snap = <<>>
    /\ spawned = 0
    /\ tasks = <<>>
    /\ grpErr = NilErr
    /\ gErr = NilErr
    /\ runResult = NilErr
    /\ firstFail = 0
    /\ failLogged = {}
    /\ lastGet = NoGet
    /\ runs = 0

\* number of value nodes of a context
RECURSIVE Bindings(_)
Bindings(c) ==
    IF Len(c) = 0 THEN 0
    ELSE (IF c[Len(c)].kind = "value" THEN 1 ELSE 0)
             + Bindings(SubSeq(c, 1, Len(c) - 1))

\* ------------------------------------------------------- caller operations
AddService(s) ==
    /\ Alive
    /\ runPc = "created"
    /\ Len(services) < MaxServices
    /\ services' = Append(services, s)
    /\ UNCHANGED <<runs, actx, logger, rootErr, interrupted, runPc, snap, spawned,
                   tasks, grpErr, gErr, runResult, firstFail, failLogged,
                   lastGet>>

\* AppSet[T](app, v): app.AddValue(TypeOf(T), v)
AddValue(k, v) ==
    /\ Alive
    /\ runPc = "created"
    /\ Bindings(actx) < MaxBindings
    /\ actx' = AddValueCtx(actx, k, v)
    /\ UNCHANGED <<runs, services, logger, rootErr, interrupted, runPc, snap,
                   spawned, tasks, grpErr, gErr, runResult, firstFail,
                   failLogged, lastGet>>

\* the caller evaluates AppGet[T](app)
AppGetCall(t) ==
    /\ Alive
    /\ runPc \in {"created", "returned"}
    /\ lastGet' = [token |-> t, val |-> AppGet(actx, t)]
    /\ lastGet' # lastGet
    /\ UNCHANGED <<runs, actx, services, logger, rootErr, interrupted, runPc, snap,
                   spawned, tasks, grpErr, gErr, runResult, firstFail,
                   failLogged>>

\* ------------------------------------------------------------- environment
\* signal.NotifyContext was called on the root of a.ctx and not yet stopped
NotifyBound(c) == Len(c) > 0 /\ c[1].kind = "notify"

PropagateNever(cur, e) == cur

\* cancellation of the root reaches grpCtx, a child of a, once it exists
Propagate(cur, e) == IF runPc = "running" /\ cur = NilErr THEN e ELSE cur

\* An interrupt signal is delivered to the process while Run is in progress
\* (outside Run no context is bound to the signal).  Only a context made by
\* signal.NotifyContext is cancelled by it.
Interrupt ==
    /\ Alive
    /\ runPc = "running"
    /\ ~interrupted
    /\ interrupted' = TRUE
    /\ IF NotifyBound(actx) /\ ~RootDone
         THEN /\ rootErr' = Canceled
              /\ grpErr' = Propagate(grpErr, Canceled)
         ELSE UNCHANGED <<rootErr, grpErr>>
    /\ UNCHANGED <<runs, actx, services, logger, runPc, snap, spawned, tasks, gErr,
                   runResult, firstFail, failLogged, lastGet>>

\* The deadline of the context given to NewWithContext expires.
Expire ==
    /\ Alive
    /\ Len(actx) > 0 /\ actx[1].kind = "deadline"
    /\ ~RootDone
    /\ rootErr' = DeadlineExceeded
    /\ grpErr' = Propagate(grpErr, DeadlineExceeded)
    /\ UNCHANGED <<runs, actx, services, logger, interrupted, runPc, snap, spawned,
                   tasks, gErr, runResult, firstFail, failLogged, lastGet>>

\* --------------------------------------------------------------------- Run
\* the root context Run works on
RunRoot(c) == IF c = NilCtx THEN <<BaseNode("notify")>> ELSE c

\* the logger Run installs
RunLogger(c) ==
    LET l == AppGet(c, LoggerT) IN
    WithApp(IF l = Zero(LoggerT) THEN DefaultLogger ELSE l)

\* Run up to the start of the loop: root context, logger, errgroup.WithContext
\* and the evaluation of the range expression a.services.
RunBegin ==
    /\ Alive
    /\ runPc = "created"
    /\ runPc' = "running"
    /\ logger' = RunLogger(RunRoot(actx))
    /\ actx' = AddValueCtx(RunRoot(actx), LoggerT, logger')
    /\ grpErr' = rootErr
    /\ gErr' = NilErr
    /\ snap' = services
    /\ lastGet' = NoGet
    /\ runs' = runs + 1
    /\ UNCHANGED <<services, rootErr, interrupted, spawned, tasks, runResult,
                   firstFail, failLogged>>

RangedLive == services

\* the slice the loop ranges over: the range expression is evaluated once,
\* before the first iteration
Ranged == snap

CapturedShared(k) == Len(Ranged)

\* s := s: the service (its index in the slice) the task of iteration k
\* captures
Captured(k) == k

\* the task that captured service k, up to its call of s.Run(ctx): logger is
\* the logger the per-service context binds
NewTask(k) == [pc |-> "running", err |-> NilErr, ret |-> NilErr,
               logger |-> WithService(logger, Ranged[k].name), svc |-> k]

CanSpawnInTurn ==
    /\ spawned < Len(Ranged)
    /\ \A i \in 1..Len(tasks) : Task(i).pc = "done"

\* the loop has another iteration to make; grp.Go does not block
CanSpawn == spawned < Len(Ranged)

\* one iteration of the loop: grp.Go(func() error {...})
RunSpawn ==
    /\ Alive
    /\ runPc = "running"
    /\ CanSpawn
    /\ spawned' = spawned + 1
    /\ tasks' = Append(tasks, NewTask(Captured(spawned + 1)))
    /\ UNCHANGED <<runs, actx, services, logger, rootErr, interrupted, runPc, snap,
                   grpErr, gErr, runResult, firstFail, failLogged, lastGet>>

ClassifySwallowAll(err) == NilErr

ClassifyByEquality(err) ==
    IF err = Canceled \/ err = DeadlineExceeded THEN NilErr ELSE err

\* the error a task returns to the errgroup for the error of s.Run
Classify(err) ==
    IF ErrorsIs(err, "Canceled") \/ ErrorsIs(err, "DeadlineExceeded")
      THEN NilErr
      ELSE err

LogsNonNil(err) == err # NilErr

\* l.ErrorContext(ctx, err.Error()) is reached
LogsFailure(err) == Classify(err) # NilErr

\* the service task i runs
Svc(i) == Ranged[Task(i).svc]

\* grpCtx: a cancel node whose parent is the app itself
GrpCtx == <<BaseNode("app"), BaseNode("group")>>

TaskCtxShared(i) == WithValue(GrpCtx, LoggerT, Task(Len(tasks)).logger)

\* the context handed to task i: context.WithValue(grpCtx, TypeOf(logger), l)
TaskCtx(i) == WithValue(GrpCtx, LoggerT, Task(i).logger)

\* Value(key) of a context derived from the app: its own nodes, then
\* a.Value(key), which reads a.ctx as it is at the time of the call
DerivedValue(c, k) ==
    LET v == CtxValue(c, k) IN
    IF v # NoValue THEN v ELSE AppValue(actx, k)

\* AppGet[T](ctx) on a context derived from the app
DerivedGet(c, t) ==
    LET v == DerivedValue(c, t) IN
    IF v = Panic THEN Panic
    ELSE IF v.type = t THEN v
    ELSE Zero(t)

\* Done() of the context handed to task i is closed: the per-service context
\* is a value node on grpCtx
CtxDone(i) == GrpDone

\* s.Run(ctx) of task i may return now
MayReturn(i) ==
    \/ Svc(i).run.wait = "no"
    \/ Svc(i).run.wait = "done" /\ CtxDone(i)

\* what s.Run(ctx) returns; ctx.Err() of the per-service context is that of
\* grpCtx
Returned(b) == IF b.ret = <<"cause">> THEN grpErr ELSE b.ret

\* s.Run(ctx) returns and the task classifies its error
TaskRun(i) ==
    /\ Alive
    /\ Spawned(i)
    /\ Task(i).pc = "running"
    /\ MayReturn(i)
    /\ LET err == Returned(Svc(i).run) IN
         /\ tasks' = [tasks EXCEPT ![i].pc = "returned",
                                   ![i].err = err,
                                   ![i].ret = Classify(err)]
         /\ failLogged' = IF LogsFailure(err) THEN failLogged \cup {i}
                          ELSE failLogged
    /\ UNCHANGED <<runs, actx, services, logger, rootErr, interrupted, runPc, snap,
                   spawned, grpErr, gErr, runResult, firstFail, lastGet>>

ErrOnceNever(g, ret) == g

ErrOnceLast(g, ret) == IF ret # NilErr THEN ret ELSE g

\* errgroup: g.errOnce.Do(func() { g.err = err; ... })
ErrOnce(g, ret) == IF ret # NilErr /\ g = NilErr THEN ret ELSE g

CancelNever(cur, g, ret) == cur

\* errgroup: ... g.cancel(g.err) inside errOnce
CancelOnError(cur, g, ret) ==
    IF ret # NilErr /\ g = NilErr /\ cur = NilErr THEN Canceled ELSE cur

\* the task function returned to the errgroup: errOnce, then wg.Done
TaskDone(i) ==
    /\ Alive
    /\ Spawned(i)
    /\ Task(i).pc = "returned"
    /\ tasks' = [tasks EXCEPT ![i].pc = "done"]
    /\ gErr' = ErrOnce(gErr, Task(i).ret)
    /\ grpErr' = CancelOnError(grpErr, gErr, Task(i).ret)
    /\ firstFail' = IF Task(i).ret # NilErr /\ firstFail = 0 THEN i ELSE firstFail
    /\ UNCHANGED <<runs, actx, services, logger, rootErr, interrupted, runPc, snap,
                   spawned, runResult, failLogged, lastGet>>

WaitCancelNone(cur) == cur

\* errgroup: g.cancel(g.err) at the end of Wait
WaitCancel(cur) == IF cur # NilErr THEN cur ELSE Canceled

WaitAny == Len(tasks) = 0 \/ \E i \in 1..Len(tasks) : Task(i).pc = "done"

\* grp.Wait() is past g.wg.Wait()
WaitReady == \A i \in 1..Len(tasks) : Task(i).pc = "done"

\* return grp.Wait(): wait for the tasks, cancel grpCtx, return g.err; then
\* the deferred a.cancel() of the context Run made
RunWait ==
    /\ Alive
    /\ runPc = "running"
    /\ ~CanSpawn
    /\ WaitReady
    /\ runPc' = "returned"
    /\ runResult' = gErr
    /\ grpErr' = WaitCancel(grpErr)
    /\ rootErr' = IF NotifyBound(actx) /\ ~RootDone THEN Canceled ELSE rootErr
    /\ UNCHANGED <<runs, actx, services, logger, interrupted, snap, spawned, tasks,
                   gErr, firstFail, failLogged, lastGet>>

Next ==
    \/ \E s \in Services : AddService(s)
    \/ \E v \in UserValues : AddValue(v.type, v)
    \/ \E t \in TypeTokens : AppGetCall(t)
    \/ Interrupt
    \/ Expire
    \/ RunBegin
    \/ RunSpawn
    \/ \E i \in 1..MaxServices : TaskRun(i)
    \/ \E i \in 1..MaxServices : TaskDone(i)
    \/ RunWait

Spec == Init /\ [][Next]_vars

\* a step of Run's loop, of a task, of grp.Wait, or of the deadline's timer
Progress ==
    \/ RunSpawn
    \/ RunWait
    \/ Expire
    \/ \E i \in 1..MaxServices : TaskRun(i) \/ TaskDone(i)

\* The scheduler does not stop while a goroutine can take a step, and time
\* passes: while a step of Run, of a task or of the timer is possible, one is
\* eventually taken.  The caller's calls and the interrupt are not fair.
Fairness == WF_vars(Progress)

FairSpec == Spec /\ Fairness

\* ------------------------------------------- registration once Run has begun
\* AddService called by another goroutine while Run is in progress, or by the
\* caller after Run: Run has evaluated its range expression before
LateServices ==
    { s \in Services : s.name = "b" \/ s.run.wait = "never" }

LateAddService(s) ==
    /\ Alive
    /\ runPc # "created"
    /\ Len(services) < Len(snap) + MaxLate
    /\ services' = Append(services, s)
    /\ UNCHANGED <<runs, actx, logger, rootErr, interrupted, runPc, snap, spawned,
                   tasks, grpErr, gErr, runResult, firstFail, failLogged,
                   lastGet>>

LateNext ==
    \/ \E s \in Services : AddService(s)
    \/ \E s \in LateServices : LateAddService(s)
    \/ Interrupt
    \/ Expire
    \/ RunBegin
    \/ RunSpawn
    \/ \E i \in 1..MaxServices : TaskRun(i)
    \/ \E i \in 1..MaxServices : TaskDone(i)
    \/ RunWait

LateSpec == Init /\ [][LateNext]_vars

\* ----------------------------------------------------------- Run once more
\* Run called on an app whose Run has returned.  Run reads no state that
\* records the earlier call: a.ctx is not nil now, so no context is made and
\* nothing is deferred; the logger found is the one the earlier Run bound;
\* grp and grpCtx are new, and grpCtx is a child of whatever a.ctx is now.
RunAgain ==
    /\ Alive
    /\ runPc = "returned"
    /\ runs < MaxRuns
    /\ runPc' = "running"
    /\ runs' = runs + 1
    /\ logger' = RunLogger(RunRoot(actx))
    /\ actx' = AddValueCtx(RunRoot(actx), LoggerT, logger')
    /\ grpErr' = rootErr
    /\ gErr' = NilErr
    /\ snap' = services
    /\ spawned' = 0
    /\ tasks' = <<>>
    /\ runResult' = NilErr
    /\ firstFail' = 0
    /\ failLogged' = {}
    /\ lastGet' = NoGet
    /\ UNCHANGED <<services, rootErr, interrupted>>

ReuseNext ==
    \/ \E s \in Services : AddService(s)
    \/ Interrupt
    \/ Expire
    \/ RunBegin
    \/ RunAgain
    \/ RunSpawn
    \/ \E i \in 1..MaxServices : TaskRun(i)
    \/ \E i \in 1..MaxServices : TaskDone(i)
    \/ RunWait

ReuseSpec == Init /\ [][ReuseNext]_vars

\* ------------------------------------------------ binding while Run is going
\* AppSet[T](app, v) called by another goroutine while Run is in progress:
\* a.ctx is replaced by a value node on the old a.ctx
LateAddValue(k, v) ==
    /\ Alive
    /\ runPc = "running"
    /\ Bindings(actx) <= MaxBindings
    /\ actx' = AddValueCtx(actx, k, v)
    /\ UNCHANGED <<runs, services, logger, rootErr, interrupted, runPc, snap,
                   spawned, tasks, grpErr, gErr, runResult, firstFail,
                   failLogged, lastGet>>

BindNext ==
    \/ \E s \in Services : AddService(s)
    \/ \E v \in UserValues : AddValue(v.type, v)
    \/ \E v \in UserValues : LateAddValue(v.type, v)
    \/ Interrupt
    \/ Expire
    \/ RunBegin
    \/ RunSpawn
    \/ \E i \in 1..MaxServices : TaskRun(i)
    \/ \E i \in 1..MaxServices : TaskDone(i)
    \/ RunWait

BindSpec == Init /\ [][BindNext]_vars

TypeOK ==
    /\ runPc \in {"created", "running", "returned"}
    /\ Len(tasks) = spawned
    /\ spawned <= Len(snap)

\* ------------------------------------------------------------------ claims
Returned0 == runPc = "returned"
SnapIdx == 1..Len(snap)
\* err is nil, or is or wraps context.Canceled / context.DeadlineExceeded
Benign(err) ==
    err = NilErr \/ ErrorsIs(err, "Canceled") \/ ErrorsIs(err, "DeadlineExceeded")
\* s.Run of task i has returned
HasReturned(i) == Spawned(i) /\ Task(i).pc \in {"returned", "done"}
\* task i has handed its result to the errgroup and finished
Finished(i) == Spawned(i) /\ Task(i).pc = "done"

\* C1: once Run has returned, its result is nil exactly when every service
\* of the slice returned nil or a benign error.
C1_RunNilIffAllBenign ==
    Returned0 =>
        /\ \A i \in SnapIdx : HasReturned(i)
        /\ (runResult = NilErr) <=> (\A i \in SnapIdx : Benign(Task(i).err))

C1_Witness ==
    /\ Returned0
    /\ Len(snap) = 2
    /\ runResult # NilErr
    /\ \E i \in SnapIdx : Task(i).err # NilErr /\ Benign(Task(i).err)

\* C2: once Run has returned every task it spawned has finished; with a
\* service in the slice that never returns, Run has not returned.
C2_JoinBarrier ==
    /\ Returned0 => \A i \in SnapIdx : Finished(i)
    /\ (\E i \in SnapIdx : snap[i].run.wait = "never") => ~Returned0

C2_Witness ==
    /\ Returned0
    /\ Len(snap) = 2
    /\ gErr # NilErr
    /\ interrupted

\* C3: whenever a task has handed a non-nil error to the errgroup, grpCtx is
\* done, and so is the context of every task: also while Run is waiting.
C3_ErrorCancelsGroup ==
    (\E i \in SnapIdx : Finished(i) /\ Task(i).ret # NilErr) =>
        /\ GrpDone
        /\ \A j \in SnapIdx : Spawned(j) => CtxDone(j)

C3_Witness ==
    /\ runPc = "running"
    /\ rootErr = NilErr
    /\ \E i, j \in SnapIdx :
         /\ Finished(i) /\ Task(i).ret # NilErr
         /\ Spawned(j) /\ Task(j).pc = "running" /\ snap[j].run.wait = "done"
         /\ CtxDone(j)

\* the services of the slice that return at once
AtOnce == {i \in SnapIdx : snap[i].run.wait = "no"}

\* Scenario B: Run is under way on a slice with exactly one service that
\* fails at once with a genuine error, and otherwise one or more services
\* that return only when their context is done.
ScenarioB ==
    /\ runPc # "created"
    /\ Len(snap) >= 2
    /\ Cardinality(AtOnce) = 1
    /\ \A i \in AtOnce : snap[i].run.ret \in {E1, E2}
    /\ \A j \in SnapIdx \ AtOnce : snap[j].run.wait = "done"

\* the genuine error of scenario B
GenuineError ==
    IF AtOnce = {} THEN NilErr ELSE snap[CHOOSE i \in AtOnce : TRUE].run.ret

\* C4: in scenario B, under fair scheduling, Run eventually returns, and
\* returns the genuine error.
C4_ScenarioBTerminates ==
    ScenarioB ~> (Returned0 /\ runResult = GenuineError)

C4_Witness ==
    /\ ScenarioB
    /\ Returned0
    /\ runResult = E1
    /\ \E j \in SnapIdx : Task(j).err = Canceled

\* C5: an error of a service that is or wraps context.Canceled or
\* context.DeadlineExceeded is handed to the errgroup as nil, whether or not
\* grpCtx is done, and neither g.err nor the result of Run is such an error.
C5_BenignIsSwallowed ==
    /\ \A i \in SnapIdx :
         (HasReturned(i) /\ Benign(Task(i).err)) => Task(i).ret = NilErr
    /\ gErr # NilErr => ~Benign(gErr)
    /\ runResult # NilErr => ~Benign(runResult)

C5_Witness ==
    /\ ~GrpDone
    /\ \E i \in SnapIdx :
         /\ HasReturned(i)
         /\ Task(i).err = WrappedCanceled
         /\ Task(i).ret = NilErr

\* Scenario C: the root given at construction carries a deadline and every
\* service blocks until its context is done.
DeadlineRoot == Len(actx) > 0 /\ actx[1].kind = "deadline"
ScenarioC ==
    /\ runPc # "created"
    /\ DeadlineRoot
    /\ \A i \in SnapIdx : snap[i].run.wait = "done"

\* C6: in scenario C the expiry of the deadline makes the context of every
\* task done, and under fair scheduling Run eventually returns nil.
C6_DeadlineEndsRun ==
    /\ []((ScenarioC /\ runPc = "running" /\ rootErr = DeadlineExceeded) =>
             \A i \in SnapIdx : Spawned(i) => CtxDone(i))
    /\ ScenarioC ~> (Returned0 /\ runResult = NilErr)

C6_Witness ==
    /\ ScenarioC
    /\ Returned0
    /\ runResult = NilErr
    /\ Len(snap) = 2
    /\ ~interrupted
    /\ \E i \in SnapIdx : Task(i).err = DeadlineExceeded

\* the tasks whose service returned a non-benign error
Failed == {i \in SnapIdx : HasReturned(i) /\ ~Benign(Task(i).err)}

\* C7: when services returned non-benign errors, Run returns the error, as
\* the service returned it, of the task that reached the errgroup first with
\* one.
C7_FirstErrorWins ==
    (Returned0 /\ Failed # {}) =>
        /\ firstFail \in Failed
        /\ runResult = Task(firstFail).err

C7_Witness ==
    /\ Returned0
    /\ Len(snap) = 2
    /\ Task(1).err = E1
    /\ Task(2).err = E2
    /\ firstFail = 2
    /\ runResult = E2

\* C8: whenever a task has finished, with any result, grpCtx (and so the
\* context handed to every other service) is done.
C8_AnyReturnCancels ==
    (\E i \in SnapIdx : Finished(i)) => GrpDone

\* C9: when no root context was given at construction, an interrupt delivered
\* while Run is in progress makes the root and grpCtx done.
C9_InterruptCancelsRoot ==
    (~DeadlineRoot /\ interrupted) => (RootDone /\ GrpDone)

\* the context or an ancestor binds the token
Bound(c, t) == CtxValue(c, t) # NoValue

\* C10: an AppGet for a token that is not bound returns the zero value of the
\* token and does not panic.
C10_GetNeverFails ==
    (lastGet.token # "-" /\ ~Bound(actx, lastGet.token)) =>
        lastGet.val = Zero(lastGet.token)

\* C11, one step: a step that binds a value on a.ctx makes AppGet of the
\* bound token return that value and leaves AppGet of every other bound
\* token as it was.
SetStep ==
    actx' # actx =>
        LET n == actx'[Len(actx')] IN
        /\ AppGet(actx', n.key) = n.val
        /\ \A t \in TypeTokens \ {n.key} :
             Bound(actx, t) => AppGet(actx', t) = AppGet(actx, t)

\* C11: after AppSet[T](v), AppGet[T] returns v, also after later bindings of
\* other tokens, and a later AppSet[T](w) makes it return w.
C11_SetGetRoundTrip == [][SetStep]_vars

C11_Witness ==
    /\ runPc = "returned"
    /\ Len(actx) = 3
    /\ actx[2].val = UserLogger
    /\ actx[3].val = WithApp(UserLogger)
    /\ lastGet = [token |-> LoggerT, val |-> WithApp(UserLogger)]

\* C18, one step: a context that is done stays done, with the same Err().
StaysDone ==
    /\ RootDone => rootErr' = rootErr
    /\ GrpDone => grpErr' = grpErr

\* C18, one state: once grpCtx exists, when the root is done grpCtx is done,
\* and when grpCtx is done the context of every task is.
Inherited ==
    /\ (runPc # "created" /\ RootDone) => GrpDone
    /\ GrpDone => \A i \in SnapIdx : Spawned(i) => CtxDone(i)

\* C18: cancellation is monotonic and inherited by the derived contexts.
C18_CancelMonotonicInherited == [][StaysDone]_vars /\ []Inherited

C18_Witness ==
    /\ runPc = "running"
    /\ rootErr = DeadlineExceeded
    /\ grpErr = DeadlineExceeded
    /\ gErr = NilErr
    /\ \E i \in SnapIdx : Spawned(i) /\ Task(i).pc = "running" /\ CtxDone(i)

\* C19: the tasks that logged a failure are exactly the tasks whose service
\* returned a non-benign error, from the moment s.Run returned, before the
\* error reaches the errgroup, whether or not Run returns that error.
C19_FailuresLogged ==
    \A i \in SnapIdx :
        (i \in failLogged) <=> (HasReturned(i) /\ ~Benign(Task(i).err))

C19_Witness ==
    /\ Returned0
    /\ failLogged = {1, 2}
    /\ Task(1).err = E1
    /\ Task(2).err = E2
    /\ runResult = E2

\* C20: once Run has returned, grpCtx and the context of every task are
\* done, also when no service failed and the root is not done.
C20_DoneAfterRun ==
    Returned0 => (GrpDone /\ \A i \in SnapIdx : CtxDone(i))

C20_Witness ==
    /\ Returned0
    /\ Len(snap) = 2
    /\ \A i \in SnapIdx : Task(i).err = NilErr
    /\ ~interrupted
    /\ rootErr = NilErr
    /\ grpErr = Canceled

\* C12, one step: starting a task changes neither what the tasks started
\* before it, nor what grpCtx, nor what the app observes for the logger token.
SpawnFrame ==
    spawned' # spawned =>
        /\ AppGet(actx, LoggerT)' = AppGet(actx, LoggerT)
        /\ DerivedGet(GrpCtx, LoggerT)' = DerivedGet(GrpCtx, LoggerT)
        /\ \A j \in 1..Len(tasks) :
             DerivedGet(TaskCtx(j), LoggerT)' = DerivedGet(TaskCtx(j), LoggerT)

\* C12, one state: every task observes the logger scoped to its own service;
\* grpCtx and the app observe the shared logger.
OwnLogger ==
    runPc # "created" =>
        /\ AppGet(actx, LoggerT) = logger
        /\ DerivedGet(GrpCtx, LoggerT) = logger
        /\ logger.service = NoService
        /\ \A i \in 1..Len(tasks) :
             DerivedGet(TaskCtx(i), LoggerT) = WithService(logger, snap[i].name)

\* C12: the service-scoped logger is bound per branch.
C12_LoggerIsolation == [][SpawnFrame]_vars /\ []OwnLogger

C12_Witness ==
    /\ Len(tasks) = 2
    /\ DerivedGet(TaskCtx(1), LoggerT).service = "a"
    /\ DerivedGet(TaskCtx(2), LoggerT).service = "b"
    /\ DerivedGet(GrpCtx, LoggerT).service = NoService
    /\ AppGet(actx, LoggerT).service = NoService

\* the tasks that run service k of the slice
TasksOf(k) == {j \in 1..Len(tasks) : Task(j).svc = k}

\* C15: every service registered before Run is run by exactly one task once
\* the loop has reached it, also when services share a name, and equal names
\* are no error.
C15_EachServiceOnce ==
    runPc # "created" =>
        /\ snap = services
        /\ \A k \in SnapIdx :
             Cardinality(TasksOf(k)) = (IF k <= spawned THEN 1 ELSE 0)
        /\ Returned0 => spawned = Len(snap)
        /\ (Returned0 /\ \A i \in SnapIdx : Task(i).err = NilErr) =>
               runResult = NilErr

C15_Witness ==
    /\ Returned0
    /\ Len(snap) = 2
    /\ snap[1].name = snap[2].name
    /\ TasksOf(1) = {1}
    /\ TasksOf(2) = {2}
    /\ Finished(1) /\ Finished(2)
    /\ runResult = NilErr

\* C17: while services of the slice are not started the loop can start the
\* next one, whatever the tasks started before are doing; Run does not wait
\* before all are started; and under fair scheduling all are started.
C17_AllStarted ==
    /\ []((runPc = "running" /\ spawned < Len(snap)) => ENABLED RunSpawn)
    /\ [](Returned0 => spawned = Len(snap))
    /\ (runPc = "running") ~> (spawned = Len(snap))

C17_Witness ==
    /\ Len(snap) = 2
    /\ Len(tasks) = 2
    /\ snap[1].run.wait = "never"
    /\ Task(1).pc = "running"
    /\ Task(2).pc = "done"
    /\ Task(2).ret # NilErr
    /\ GrpDone

\* C16: the tasks of a Run are those of the services registered when Run
\* evaluated its range expression; a service registered later is in
\* a.services but no task of that Run runs it.
C16_SnapshotOfServices ==
    runPc # "created" =>
        /\ Len(services) >= Len(snap)
        /\ SubSeq(services, 1, Len(snap)) = snap
        /\ Len(tasks) <= Len(snap)
        /\ \A j \in 1..Len(tasks) : Task(j).svc \in SnapIdx
        /\ Returned0 => Len(tasks) = Len(snap)

C16_Witness ==
    /\ Returned0
    /\ Len(snap) = 1
    /\ Len(services) = 2
    /\ Len(tasks) = 1
    /\ Finished(1)
    /\ services[2].run.wait = "never"

\* C14: an app is run once: a call of Run made after Run has returned starts
\* none of the registered services.
C14_OneShot == runs > 1 => tasks = <<>>

\* what the group context and the tasks' contexts return for a token
DerivedGets(t) ==
    [c \in {GrpCtx} \cup {TaskCtx(i) : i \in 1..Len(tasks)} |-> DerivedGet(c, t)]

\* a.ctx is replaced once Run has derived the group context and the context
\* of every service
BindsAfterDerivation ==
    /\ runPc = "running"
    /\ Len(snap) >= 1
    /\ spawned = Len(snap)
    /\ tasks' = tasks
    /\ actx' # actx

\* C13: a binding made on the app after Run has derived the group context
\* and the per-service contexts changes nothing that those contexts return
\* from a lookup, for any token.
C13_DerivedUnaffected ==
    [][BindsAfterDerivation =>
           \A t \in TypeTokens : DerivedGets(t)' = DerivedGets(t)]_vars

====
